---- MODULE Spec2Model ----
(***************************************************************************)
(* Model of nestcollector/osm_elements.py: the Node, Way and Relation      *)
(* classes, Way.build_polygon and Relation.build_multipolygon.             *)
(*                                                                         *)
(* Python objects are records with a cls field (the class isinstance       *)
(* tests).  Node, Way and Relation instances live in the heaps points,     *)
(* ways and relations; a lookup mapping holds references into the heaps.   *)
(* A call returns [ok |-> TRUE, val |-> result] or raises                  *)
(* [ok |-> FALSE, val |-> exception].  shapely's Polygon and MultiPolygon  *)
(* are constructors that record the sequence handed to them.               *)
(***************************************************************************)
EXTENDS Integers, Sequences, FiniteSets, TLC

VARIABLES points, ways, relations, call, thr

vars == <<points, ways, relations, call, thr>>

(* ------------------------------ bounds -------------------------------- *)

MaxRefs == 2        \* node references held by the Ways of a heap, in total

MaxMembers == 2     \* longest members list of a Relation

Ids == {1, 2}       \* identifiers: element ids, node refs, member refs, mapping keys

Coords == {0, 1}    \* latitude and longitude values

(* --------------------------- Python values ---------------------------- *)

NoneVal == [cls |-> "NoneType"]

Str(s) == [cls |-> "str", s |-> s]

Dict(items) == [cls |-> "dict", items |-> items]

Ref(c, i) == [cls |-> c, at |-> i]

Ok(v) == [ok |-> TRUE, val |-> v]

Raise(e) == [ok |-> FALSE, val |-> e]

KeyError(k) == [cls |-> "KeyError", key |-> k]

AttributeError(c, a) == [cls |-> "AttributeError", obj |-> c, attr |-> a]

Polygon(shell) == [cls |-> "Polygon", shell |-> shell]

MultiPolygon(polygons) == [cls |-> "MultiPolygon", geoms |-> polygons]

(* ---------------------------- constructors ---------------------------- *)

\* tags['name'] if tags and 'name' in tags else None
NameOf(tags) ==
    IF tags.cls = "dict" /\ DOMAIN tags.items # {} /\ "name" \in DOMAIN tags.items
    THEN tags.items["name"]
    ELSE NoneVal

NodeInit(type, id, lat, lon, tags) ==
    [cls |-> "Node", type |-> type, id |-> id, lat |-> lat, lon |-> lon,
     tags |-> tags]

WayInit(type, id, nodes, tags) ==
    [cls |-> "Way", type |-> type, id |-> id, nodes |-> nodes, tags |-> tags,
     name |-> NameOf(tags), polygon |-> NoneVal]

RelationInit(type, id, members, tags) ==
    [cls |-> "Relation", type |-> type, id |-> id, members |-> members,
     tags |-> tags, name |-> NameOf(tags), multipolygon |-> NoneVal]

(* ------------------------------ equality ------------------------------ *)

NodeEq(self, other) == other.cls = "Node" /\ self.id = other.id

\* equality by value: every attribute compared
WayEqByValue(self, other) == other.cls = "Way" /\ self = other

WayEq(self, other) == other.cls = "Way" /\ self.id = other.id

RelationEq(self, other) == other.cls = "Relation" /\ self.id = other.id

(* ------------------------- mapping and attributes --------------------- *)

\* mapping[key]: KeyError when the key is absent
GetItem(mapping, key) ==
    IF key \in DOMAIN mapping THEN Ok(mapping[key]) ELSE Raise(KeyError(key))

\* the object a reference designates, in heap h of Way objects
Deref(h, ref) ==
    CASE ref.cls = "Node" -> points[ref.at]
      [] ref.cls = "Way" -> h[ref.at]

\* obj.attr: AttributeError when the object's class has no such attribute
GetAttr(obj, attr) ==
    IF attr \in DOMAIN obj THEN Ok(obj[attr])
    ELSE Raise(AttributeError(obj.cls, attr))

(* --------------------------- Way.build_polygon ------------------------ *)

\* Coordinates with the pair assembled as (lon, lat)
RECURSIVE CoordinatesLonLat(_, _, _)
CoordinatesLonLat(refs, nodes, h) ==
    IF refs = <<>> THEN Ok(<<>>)
    ELSE LET e == GetItem(nodes, Head(refs)) IN
         IF ~e.ok THEN e
         ELSE LET lat == GetAttr(Deref(h, e.val), "lat")
                  lon == GetAttr(Deref(h, e.val), "lon") IN
              IF ~lat.ok THEN lat
              ELSE IF ~lon.ok THEN lon
              ELSE LET rest == CoordinatesLonLat(Tail(refs), nodes, h) IN
                   IF ~rest.ok THEN rest
                   ELSE Ok(<<<<lon.val, lat.val>>>> \o rest.val)

\* Coordinates with a reference missing from the mapping skipped
RECURSIVE CoordinatesSkipMissing(_, _, _)
CoordinatesSkipMissing(refs, nodes, h) ==
    IF refs = <<>> THEN Ok(<<>>)
    ELSE IF Head(refs) \notin DOMAIN nodes
    THEN CoordinatesSkipMissing(Tail(refs), nodes, h)
    ELSE LET lat == GetAttr(Deref(h, nodes[Head(refs)]), "lat")
             lon == GetAttr(Deref(h, nodes[Head(refs)]), "lon") IN
         IF ~lat.ok THEN lat
         ELSE IF ~lon.ok THEN lon
         ELSE LET rest == CoordinatesSkipMissing(Tail(refs), nodes, h) IN
              IF ~rest.ok THEN rest
              ELSE Ok(<<<<lat.val, lon.val>>>> \o rest.val)

\* [(nodes[node].lat, nodes[node].lon) for node in self.nodes]
RECURSIVE Coordinates(_, _, _)
Coordinates(refs, nodes, h) ==
    IF refs = <<>> THEN Ok(<<>>)
    ELSE LET e == GetItem(nodes, Head(refs)) IN
         IF ~e.ok THEN e
         ELSE LET lat == GetAttr(Deref(h, e.val), "lat")
                  lon == GetAttr(Deref(h, e.val), "lon") IN
              IF ~lat.ok THEN lat
              ELSE IF ~lon.ok THEN lon
              ELSE LET rest == Coordinates(Tail(refs), nodes, h) IN
                   IF ~rest.ok THEN rest
                   ELSE Ok(<<<<lat.val, lon.val>>>> \o rest.val)

build_polygon(self, nodes, h) ==
    LET c == Coordinates(self.nodes, nodes, h) IN
    IF c.ok THEN Ok(Polygon(c.val)) ELSE c

(* ---------------------- Relation.build_multipolygon ------------------- *)

\* way.polygon = <polygon>, on the Way at index w of heap h
StorePolygon(h, w, polygon) == [h EXCEPT ![w].polygon = polygon]

\* LoopBody without the test of the cache: the polygon is built every time
LoopBodyAlwaysBuild(st, member, m) ==
    IF member.type # "way" THEN st
    ELSE LET e == GetItem(m, member.ref) IN
         IF ~e.ok THEN [st EXCEPT !.exc = e.val]
         ELSE LET cached == GetAttr(Deref(st.heap, e.val), "polygon") IN
              IF ~cached.ok THEN [st EXCEPT !.exc = cached.val]
              ELSE LET p == build_polygon(Deref(st.heap, e.val), m, st.heap) IN
                   IF ~p.ok THEN [st EXCEPT !.exc = p.val]
                   ELSE [st EXCEPT !.heap = StorePolygon(st.heap, e.val.at, p.val),
                                   !.built = Append(st.built, e.val.at),
                                   !.polygons = Append(st.polygons, p.val)]

\* LoopBody with a member whose way is missing from the mapping skipped
LoopBodySkipMissing(st, member, m) ==
    IF member.type # "way" \/ member.ref \notin DOMAIN m THEN st
    ELSE LET cached == GetAttr(Deref(st.heap, m[member.ref]), "polygon") IN
         IF ~cached.ok THEN [st EXCEPT !.exc = cached.val]
         ELSE IF cached.val = NoneVal
         THEN LET p == build_polygon(Deref(st.heap, m[member.ref]), m, st.heap) IN
              IF ~p.ok THEN [st EXCEPT !.exc = p.val]
              ELSE [st EXCEPT !.heap = StorePolygon(st.heap, m[member.ref].at, p.val),
                              !.built = Append(st.built, m[member.ref].at),
                              !.polygons = Append(st.polygons, p.val)]
         ELSE [st EXCEPT !.polygons = Append(st.polygons, cached.val)]

\* the body of the for loop, on loop state st, for one member; st.built lists
\* the Ways whose polygon this call constructed and stored
LoopBody(st, member, m) ==
    IF member.type # "way" THEN st
    ELSE LET e == GetItem(m, member.ref) IN
         IF ~e.ok THEN [st EXCEPT !.exc = e.val]
         ELSE LET cached == GetAttr(Deref(st.heap, e.val), "polygon") IN
              IF ~cached.ok THEN [st EXCEPT !.exc = cached.val]
              ELSE IF cached.val = NoneVal
              THEN LET p == build_polygon(Deref(st.heap, e.val), m, st.heap) IN
                   IF ~p.ok THEN [st EXCEPT !.exc = p.val]
                   ELSE [st EXCEPT !.heap = StorePolygon(st.heap, e.val.at, p.val),
                                   !.built = Append(st.built, e.val.at),
                                   !.polygons = Append(st.polygons, p.val)]
              ELSE [st EXCEPT !.polygons = Append(st.polygons, cached.val)]

\* for member in self.members, from position st.i on; an exception ends the loop
\* with st.i the position of the member that raised it
RECURSIVE Loop(_, _, _)
Loop(st, members, m) ==
    IF st.i > Len(members) THEN st
    ELSE LET next == LoopBody(st, members[st.i], m) IN
         IF next.exc # NoneVal THEN next
         ELSE Loop([next EXCEPT !.i = st.i + 1], members, m)

\* build_multipolygon with the caches written only when the whole call succeeds
build_multipolygon_atomic(self, m, h) ==
    LET st == Loop([heap |-> h, polygons |-> <<>>, built |-> <<>>,
                    exc |-> NoneVal, i |-> 1], self.members, m) IN
    [heap  |-> IF st.exc = NoneVal THEN st.heap ELSE h,
     pos   |-> st.i,
     built |-> st.built,
     ret   |-> IF st.exc = NoneVal THEN Ok(MultiPolygon(st.polygons))
               ELSE Raise(st.exc)]

build_multipolygon(self, m, h) ==
    LET st == Loop([heap |-> h, polygons |-> <<>>, built |-> <<>>,
                    exc |-> NoneVal, i |-> 1], self.members, m) IN
    [heap  |-> st.heap,
     pos   |-> st.i,
     built |-> st.built,
     ret   |-> IF st.exc = NoneVal THEN Ok(MultiPolygon(st.polygons))
               ELSE Raise(st.exc)]

(* ------------------------------- inputs ------------------------------- *)

SeqsUpTo(S, n) == UNION {[1..k -> S] : k \in 0..n}

RECURSIVE TotalLen(_, _)
TotalLen(objs, field) ==
    IF objs = <<>> THEN 0 ELSE Len(Head(objs)[field]) + TotalLen(Tail(objs), field)

\* references to the objects of the heaps
Refs == {Ref("Node", i) : i \in DOMAIN points} \cup {Ref("Way", i) : i \in DOMAIN ways}

\* lookup mappings a caller can pass: identifier -> object
Mappings == UNION {[D -> Refs] : D \in SUBSET Ids}

MemberTypes == {"way", "node"}

Members == [type : MemberTypes, ref : Ids]

WayMembers == [type : {"way"}, ref : Ids]

Tags == {NoneVal, Dict([k \in {"name"} |-> Str("a")])}

NoCall == [op |-> "none"]

P0 == NodeInit("node", 1, 0, 1, NoneVal)

P1 == NodeInit("node", 2, 1, 0, NoneVal)

W0 == WayInit("way", 1, <<2>>, NoneVal)

W1 == WayInit("way", 2, <<>>, NoneVal)

R0 == RelationInit("relation", 1, <<[type |-> "way", ref |-> 1]>>, NoneVal)

R1 == RelationInit("relation", 2, <<[type |-> "way", ref |-> 1]>>, NoneVal)

(* -------------------------- sequential calls -------------------------- *)

\* BuildPolygon with the polygon cached in the Way by build_polygon itself
BuildPolygonCaching(w, m) ==
    LET ret == build_polygon(ways[w], m, ways) IN
    /\ call' = [op |-> "build_polygon", self |-> w, arg |-> m, pos |-> 0,
                built |-> <<>>, ret |-> ret]
    /\ ways' = IF ret.ok THEN StorePolygon(ways, w, ret.val) ELSE ways
    /\ UNCHANGED <<points, relations, thr>>

\* polygon = ways[w].build_polygon(m), called directly
BuildPolygon(w, m) ==
    /\ call' = [op |-> "build_polygon", self |-> w, arg |-> m, pos |-> 0,
                built |-> <<>>, ret |-> build_polygon(ways[w], m, ways)]
    /\ UNCHANGED <<points, ways, relations, thr>>

\* BuildMultipolygon with the result memoized in the Relation
BuildMultipolygonMemo(r, m) ==
    LET res == build_multipolygon(relations[r], m, ways) IN
    /\ ways' = res.heap
    /\ relations' = IF res.ret.ok
                    THEN [relations EXCEPT ![r].multipolygon = res.ret.val]
                    ELSE relations
    /\ call' = [op |-> "build_multipolygon", self |-> r, arg |-> m,
                pos |-> res.pos, built |-> res.built, ret |-> res.ret]
    /\ UNCHANGED <<points, thr>>

\* multipolygon = relations[r].build_multipolygon(m)
BuildMultipolygon(r, m) ==
    LET res == build_multipolygon(relations[r], m, ways) IN
    /\ ways' = res.heap
    /\ call' = [op |-> "build_multipolygon", self |-> r, arg |-> m,
                pos |-> res.pos, built |-> res.built, ret |-> res.ret]
    /\ UNCHANGED <<points, relations, thr>>

\* one Relation, two Ways and one Node; the caller builds multipolygons
Init ==
    /\ points = <<P0>>
    /\ \E a \in SeqsUpTo(Ids, MaxRefs), b \in SeqsUpTo(Ids, MaxRefs) :
          ways = <<WayInit("way", 1, a, NoneVal), WayInit("way", 2, b, NoneVal)>>
    /\ TotalLen(ways, "nodes") <= MaxRefs
    /\ relations \in [1..1 -> {RelationInit("relation", 1, ms, NoneVal) :
                                 ms \in SeqsUpTo(Members, MaxMembers)}]
    /\ call = NoCall
    /\ thr = <<>>

Next == \E r \in DOMAIN relations, m \in Mappings : BuildMultipolygon(r, m)

Spec == Init /\ [][Next]_vars

\* two objects of each class, one of them drawn from the class's constructor
\* arguments (a Relation's id and tags, or its members); the caller builds
\* polygons and multipolygons
InitObj ==
    /\ \/ /\ \E id \in Ids, lat \in Coords, lon \in Coords, t \in Tags :
                points = <<P0, NodeInit("node", id, lat, lon, t)>>
          /\ ways = <<W0, W1>>
          /\ relations = <<R0, R1>>
       \/ /\ points = <<P0, P1>>
          /\ \E id \in Ids, n \in SeqsUpTo(Ids, MaxRefs), t \in Tags :
                ways = <<W0, WayInit("way", id, n, t)>>
          /\ relations = <<R0, R1>>
       \/ /\ points = <<P0, P1>>
          /\ ways = <<W0, W1>>
          /\ \/ \E id \in Ids, t \in Tags :
                   relations = <<R0, RelationInit("relation", id, R0.members, t)>>
             \/ \E ms \in SeqsUpTo(WayMembers, MaxMembers) :
                   relations = <<R0, RelationInit("relation", 2, ms, NoneVal)>>
    /\ call = NoCall
    /\ thr = <<>>

NextObj ==
    \/ \E w \in DOMAIN ways, m \in Mappings : BuildPolygon(w, m)
    \/ \E r \in DOMAIN relations, m \in Mappings : BuildMultipolygon(r, m)

SpecObj == InitObj /\ [][NextObj]_vars

(* ------------------- concurrent build_multipolygon -------------------- *)
(* Two threads of control run relations[1].build_multipolygon(call.arg)   *)
(* over the same, unchanged mapping.  A thread's frame holds i (position  *)
(* in members), polygons, way (the resolved member) and tmp (the polygon  *)
(* build_polygon returned, not yet stored).  A step of a thread is one    *)
(* access to a Way's polygon attribute, with the thread-local work up to  *)
(* the next one.                                                          *)

Frame == [pc |-> "fetch", i |-> 1, polygons |-> <<>>, way |-> NoneVal,
          tmp |-> NoneVal, ret |-> NoneVal]

Return(f, ret) == [f EXCEPT !.pc = "done", !.ret = ret]

\* the position of the first member of type "way" from i on, Len + 1 if none
RECURSIVE NextWay(_, _)
NextWay(members, i) ==
    IF i > Len(members) \/ members[i].type = "way" THEN i
    ELSE NextWay(members, i + 1)

\* Fetch with the append of line 171 inside the if of line 169: a cached
\* polygon is not collected
FetchAppendInsideIf(f, members, m, h) ==
    LET j == NextWay(members, f.i) IN
    IF j > Len(members) THEN Return(f, Ok(MultiPolygon(f.polygons)))
    ELSE LET e == GetItem(m, members[j].ref) IN
         IF ~e.ok THEN Return([f EXCEPT !.i = j], e)
         ELSE LET cached == GetAttr(Deref(h, e.val), "polygon") IN
              IF ~cached.ok THEN Return([f EXCEPT !.i = j], cached)
              ELSE IF cached.val = NoneVal
              THEN LET p == build_polygon(Deref(h, e.val), m, h) IN
                   IF ~p.ok THEN Return([f EXCEPT !.i = j], p)
                   ELSE [f EXCEPT !.pc = "store", !.i = j, !.way = e.val,
                                  !.tmp = p.val]
              ELSE [f EXCEPT !.i = j + 1]

\* the loop up to the test of line 169, and the call of build_polygon when the
\* cache is absent
Fetch(f, members, m, h) ==
    LET j == NextWay(members, f.i) IN
    IF j > Len(members) THEN Return(f, Ok(MultiPolygon(f.polygons)))
    ELSE LET e == GetItem(m, members[j].ref) IN
         IF ~e.ok THEN Return([f EXCEPT !.i = j], e)
         ELSE LET cached == GetAttr(Deref(h, e.val), "polygon") IN
              IF ~cached.ok THEN Return([f EXCEPT !.i = j], cached)
              ELSE IF cached.val = NoneVal
              THEN LET p == build_polygon(Deref(h, e.val), m, h) IN
                   IF ~p.ok THEN Return([f EXCEPT !.i = j], p)
                   ELSE [f EXCEPT !.pc = "store", !.i = j, !.way = e.val,
                                  !.tmp = p.val]
              ELSE [f EXCEPT !.pc = "append", !.i = j, !.way = e.val]

\* lines 166-170, up to the value of way.build_polygon(ways)
ThreadFetch(t) ==
    /\ thr[t].pc = "fetch"
    /\ thr' = [thr EXCEPT ![t] = Fetch(thr[t], relations[1].members, call.arg, ways)]
    /\ UNCHANGED <<points, ways, relations, call>>

\* line 170: way.polygon = <the polygon built>
ThreadStore(t) ==
    /\ thr[t].pc = "store"
    /\ ways' = StorePolygon(ways, thr[t].way.at, thr[t].tmp)
    /\ thr' = [thr EXCEPT ![t].pc = "append", ![t].tmp = NoneVal]
    /\ UNCHANGED <<points, relations, call>>

\* line 171: polygons.append(way.polygon)
ThreadAppend(t) ==
    /\ thr[t].pc = "append"
    /\ thr' = [thr EXCEPT ![t].pc = "fetch", ![t].i = thr[t].i + 1,
                          ![t].way = NoneVal,
                          ![t].polygons = Append(thr[t].polygons,
                                                 ways[thr[t].way.at].polygon)]
    /\ UNCHANGED <<points, ways, relations, call>>

InitConc ==
    /\ points = <<P0, P1>>
    /\ \E a \in SeqsUpTo(Ids, MaxRefs), b \in SeqsUpTo(Ids, MaxRefs) :
          ways = <<WayInit("way", 1, a, NoneVal), WayInit("way", 2, b, NoneVal)>>
    /\ TotalLen(ways, "nodes") <= MaxRefs
    /\ relations \in [1..1 -> {RelationInit("relation", 1, ms, NoneVal) :
                                 ms \in SeqsUpTo(Members, MaxMembers)}]
    /\ \E m \in Mappings : call = [op |-> "threads", arg |-> m]
    /\ thr = <<Frame, Frame>>

NextConc ==
    \E t \in DOMAIN thr : ThreadFetch(t) \/ ThreadStore(t) \/ ThreadAppend(t)

SpecConc == InitConc /\ [][NextConc]_vars

(* ------------------------------ properties ---------------------------- *)

IsWay(member) == member.type = "way"

\* the member resolves, in mapping m, to a Way object
ResolvesToWay(member, m) == member.ref \in DOMAIN m /\ m[member.ref].cls = "Way"

\* the polygons heap h caches for the "way" members, in member order
CachedPolygons(members, m, h) ==
    LET wm == SelectSeq(members, IsWay) IN
    [k \in 1..Len(wm) |-> h[m[wm[k].ref].at].polygon]

\* the state is the one a call of build_multipolygon has just left
AfterBuildMultipolygon == call.op = "build_multipolygon"

\* C1: whenever the mapping holds a Way for every member of type "way",
\* build_multipolygon succeeds and returns the polygons of the "way" members,
\* in member order (one polygon per reference, none for other members).
C1_BuildSucceedsOnCompleteMapping ==
    AfterBuildMultipolygon =>
        LET members == relations[call.self].members IN
        (\A i \in DOMAIN members :
            IsWay(members[i]) => ResolvesToWay(members[i], call.arg))
        => /\ call.ret.ok
           /\ call.ret.val = MultiPolygon(CachedPolygons(members, call.arg, ways))

\* C4 as stated: once build_multipolygon has completed on a Relation, the
\* Relation's multipolygon field is populated.
C4_PopulatedAfterBuild ==
    (AfterBuildMultipolygon /\ call.ret.ok)
        => relations[call.self].multipolygon # NoneVal

\* C4 amended: a Relation's multipolygon field is absent after construction
\* and stays absent: build_multipolygon returns the multipolygon, it never
\* stores it in the Relation.
C4_MultipolygonNeverStored ==
    \A r \in DOMAIN relations : relations[r].multipolygon = NoneVal

C4_Witness ==
    /\ AfterBuildMultipolygon
    /\ call.ret.ok
    /\ Len(call.ret.val.geoms) > 0
    /\ relations[call.self].multipolygon = NoneVal

\* the first reference of refs that is no key of m, 0 if there is none
RECURSIVE FirstMissing(_, _)
FirstMissing(refs, m) ==
    IF refs = <<>> THEN 0
    ELSE IF Head(refs) \notin DOMAIN m THEN Head(refs)
    ELSE FirstMissing(Tail(refs), m)

\* the references of refs before the first one that is no key of m
RECURSIVE Present(_, _)
Present(refs, m) ==
    IF refs = <<>> \/ Head(refs) \notin DOMAIN m THEN {}
    ELSE {Head(refs)} \cup Present(Tail(refs), m)

\* C6: a call of build_multipolygon fails when a "way" member's reference is
\* absent from the mapping, and when an uncached member Way has a node
\* reference absent from the mapping; the exception is the KeyError of the
\* failing lookup itself, and only a member of type "way" makes a call fail.
C6_Step ==
    call'.op = "build_multipolygon" =>
        LET members == relations[call'.self].members
            m == call'.arg
            k == call'.pos IN
        /\ (\E i \in DOMAIN members :
               IsWay(members[i]) /\ members[i].ref \notin DOMAIN m)
           => ~call'.ret.ok
        /\ (\E i \in DOMAIN members :
               /\ IsWay(members[i]) /\ ResolvesToWay(members[i], m)
               /\ ways[m[members[i].ref].at].polygon = NoneVal
               /\ FirstMissing(ways[m[members[i].ref].at].nodes, m) # 0)
           => ~call'.ret.ok
        /\ ~call'.ret.ok =>
             /\ k \in DOMAIN members
             /\ IsWay(members[k])
             /\ members[k].ref \notin DOMAIN m
                => call'.ret = Raise(KeyError(members[k].ref))
             /\ ResolvesToWay(members[k], m) =>
                  LET way == ways[m[members[k].ref].at] IN
                  /\ way.polygon = NoneVal
                  /\ (/\ FirstMissing(way.nodes, m) # 0
                      /\ \A n \in Present(way.nodes, m) : m[n].cls = "Node")
                     => call'.ret = Raise(KeyError(FirstMissing(way.nodes, m)))
        /\ (\A i \in DOMAIN members : ~IsWay(members[i]))
           => call'.ret = Ok(MultiPolygon(<<>>))

C6_FailuresSurfaceUnchanged == [][C6_Step]_vars

C6_Witness ==
    /\ AfterBuildMultipolygon
    /\ ~call.ret.ok
    /\ call.ret.val.cls = "KeyError"
    /\ ResolvesToWay(relations[call.self].members[call.pos], call.arg)
    /\ \E i \in 1..(call.pos - 1) :
          /\ ~IsWay(relations[call.self].members[i])
          /\ relations[call.self].members[i].ref \notin DOMAIN call.arg

\* C10: when build_multipolygon fails at the member at position k, every Way
\* it built for an earlier member keeps its polygon, and the Way at position k
\* and every Way no earlier "way" member resolves to are left as they were.
C10_Step ==
    (call'.op = "build_multipolygon" /\ ~call'.ret.ok) =>
        LET members == relations[call'.self].members
            m == call'.arg
            k == call'.pos
            before == {m[members[j].ref].at : j \in {i \in 1..(k - 1) : IsWay(members[i])}} IN
        /\ \A w \in before : ways'[w].polygon # NoneVal
        /\ \A i \in DOMAIN call'.built :
              /\ call'.built[i] \in before
              /\ ways[call'.built[i]].polygon = NoneVal
              /\ ways'[call'.built[i]].polygon # NoneVal
        /\ \A w \in DOMAIN ways : w \notin before => ways'[w] = ways[w]
        /\ ResolvesToWay(members[k], m) =>
              ways'[m[members[k].ref].at] = ways[m[members[k].ref].at]

C10_FailureKeepsEarlierCaches == [][C10_Step]_vars

C10_Witness ==
    /\ AfterBuildMultipolygon
    /\ ~call.ret.ok
    /\ Len(call.built) > 0
    /\ ResolvesToWay(relations[call.self].members[call.pos], call.arg)

\* the mapping holds Node objects only
IsPointsMapping(m) == \A k \in DOMAIN m : m[k].cls = "Node"

C3_Step ==
    /\ \A w \in DOMAIN ways :
          ways[w].polygon # NoneVal => ways'[w].polygon = ways[w].polygon
    /\ call'.op = "build_multipolygon" =>
          LET members == SelectSeq(relations[call'.self].members, IsWay)
              m == call'.arg IN
          /\ \A i \in DOMAIN call'.built :
                /\ ways[call'.built[i]].polygon = NoneVal
                /\ \A j \in DOMAIN call'.built : call'.built[j] = call'.built[i] => j = i
          /\ call'.ret.ok =>
                \A k \in DOMAIN members :
                   ways[m[members[k].ref].at].polygon # NoneVal
                   => call'.ret.val.geoms[k] = ways[m[members[k].ref].at].polygon

C3_CacheWrittenOnce == [][C3_Step]_vars

C3_Witness ==
    /\ AfterBuildMultipolygon
    /\ call.ret.ok
    /\ call.self = 2
    /\ \E i \in DOMAIN relations[call.self].members :
          LET way == call.arg[relations[call.self].members[i].ref].at IN
          /\ \A j \in DOMAIN call.built : call.built[j] # way
          /\ build_polygon(ways[way], call.arg, ways) # Ok(ways[way].polygon)

\* C5: on a points mapping that lacks a node reference of the Way,
\* build_polygon raises the KeyError of the first missing reference, returns
\* no polygon, and leaves every Way as it was.
C5_Step ==
    call'.op = "build_polygon" =>
        LET nodes == ways[call'.self].nodes
            m == call'.arg IN
        (IsPointsMapping(m) /\ FirstMissing(nodes, m) # 0)
        => /\ call'.ret = Raise(KeyError(FirstMissing(nodes, m)))
           /\ ways' = ways

C5_MissingPointFails == [][C5_Step]_vars

C5_Witness ==
    /\ call.op = "build_polygon"
    /\ IsPointsMapping(call.arg)
    /\ ~call.ret.ok
    /\ Len(ways[call.self].nodes) = 2
    /\ ways[call.self].nodes[1] \in DOMAIN call.arg
    /\ ways[call.self].nodes[2] \notin DOMAIN call.arg
    /\ ways[call.self].polygon = NoneVal

\* C7: a direct call of build_polygon leaves every Way as it was, whether it
\* returns or raises; a Way changes only in a call of build_multipolygon, and
\* then only in its polygon.
C7_Step ==
    /\ call'.op = "build_polygon" => ways' = ways
    /\ ways' # ways =>
          /\ call'.op = "build_multipolygon"
          /\ \A w \in DOMAIN ways : ways'[w] = [ways[w] EXCEPT !.polygon = ways'[w].polygon]

C7_BuildPolygonKeepsWay == [][C7_Step]_vars

C7_Witness ==
    /\ call.op = "build_polygon"
    /\ call.ret.ok
    /\ Len(call.ret.val.shell) > 0
    /\ ways[call.self].polygon = NoneVal

\* C8: two Nodes, two Ways or two Relations are equal iff their ids are
\* equal, whatever their other attributes and caches, before and after every
\* call.
C8_Step ==
    /\ \A i \in DOMAIN points, j \in DOMAIN points :
          /\ NodeEq(points[i], points[j]) <=> points[i].id = points[j].id
          /\ NodeEq(points'[i], points'[j]) <=> points[i].id = points[j].id
    /\ \A i \in DOMAIN ways, j \in DOMAIN ways :
          /\ WayEq(ways[i], ways[j]) <=> ways[i].id = ways[j].id
          /\ WayEq(ways'[i], ways'[j]) <=> ways[i].id = ways[j].id
    /\ \A i \in DOMAIN relations, j \in DOMAIN relations :
          /\ RelationEq(relations[i], relations[j]) <=> relations[i].id = relations[j].id
          /\ RelationEq(relations'[i], relations'[j]) <=> relations[i].id = relations[j].id

C8_EqualityByIdentity == [][C8_Step]_vars

C8_Witness ==
    /\ ways[1].id = ways[2].id
    /\ ways[1].nodes # ways[2].nodes
    /\ ways[1].tags # ways[2].tags
    /\ ways[1].polygon # NoneVal
    /\ ways[2].polygon = NoneVal
    /\ WayEq(ways[1], ways[2])

\* the heap with every cache absent, as it is when the threads start
Uncached(h) == [w \in DOMAIN h |-> [h[w] EXCEPT !.polygon = NoneVal]]

\* C9: under every interleaving of two threads building over the same
\* mapping, a populated cache is never reset or changed (every write stores
\* the polygon already there), and each thread returns or raises what a
\* sequential call returns or raises.
C9_Step ==
    /\ \A w \in DOMAIN ways :
          ways[w].polygon # NoneVal => ways'[w].polygon = ways[w].polygon
    /\ \A t \in DOMAIN thr :
          thr'[t].pc = "done" =>
             /\ thr'[t].ret = build_multipolygon(relations[1], call.arg, Uncached(ways)).ret
             /\ thr'[t].ret = build_multipolygon(relations[1], call.arg, ways').ret

C9_RaceIsBenign == [][C9_Step]_vars

C9_Witness ==
    /\ thr[1].pc = "done"
    /\ thr[1].ret.ok
    /\ thr[2].pc = "store"
    /\ ways[thr[2].way.at].polygon # NoneVal

====
